---- MODULE Spec2Model ----
(***************************************************************************)
(* Model of GSOF_ArduBridge/ArduI2C.py: the class ArduBridgeI2C, which     *)
(* encodes I2C bus operations into byte packets, hands them to a serial    *)
(* transport (self.comm) and reads the firmware's replies back.            *)
(*                                                                         *)
(* A call runs until it blocks in comm.receive(); every receive is a       *)
(* separate step because its result is chosen by the environment.          *)
(***************************************************************************)
EXTENDS Integers, Sequences, FiniteSets, TLC

(***************************************************************************)
(* Bounds of the model.                                                    *)
(***************************************************************************)
\* payloads and replies of up to MaxLen bytes are enumerated byte by byte
MaxLen == 3
\* calls made on the shared bus
MaxCalls == 3
\* calls made on the shared bus by threads that take no lock
MaxRaceCalls == 2

(***************************************************************************)
(* Protocol constants, ArduBridgeI2C.__init__                              *)
(***************************************************************************)
I2C_PACKET_ID == 50
CMD_I2C_ADDRESS == 65
CMD_I2C_LENGTH == 76
CMD_I2C_FREQ == 70
CMD_I2C_WRITE_RESTART == 119
CMD_I2C_WRITE == 87
CMD_I2C_READ_RESTART == 114
CMD_I2C_READ == 82

ERROR_NONE == 78
ERROR_UNESCAPE == 85
ERROR_LENGTH == 76
ERROR_READ == 82
ERROR_WRITEDATA == 87
ERROR_SENDDATA == 83

\* self.ERROR: the keys of the code -> name table
ERROR ==
  [c \in {ERROR_NONE, ERROR_UNESCAPE, ERROR_LENGTH, ERROR_READ,
          ERROR_WRITEDATA, ERROR_SENDDATA} |->
     CASE c = ERROR_NONE      -> "OK"
       [] c = ERROR_UNESCAPE  -> "UNESCAPE"
       [] c = ERROR_LENGTH    -> "LENGTH"
       [] c = ERROR_READ      -> "READ"
       [] c = ERROR_WRITEDATA -> "WRITE-DATA"
       [] c = ERROR_SENDDATA  -> "SEND-DATA"]

\* self.RES: the meaning of reply[0], the flag of a receive
RES == [f \in {1, -1} |-> IF f = 1 THEN "OK" ELSE "ERR"]

(***************************************************************************)
(* Inputs of the calls.                                                    *)
(***************************************************************************)
\* device addresses and register numbers handed in by the caller
Devs == {20, 255}
Regs == {0, 16}
\* bytes of the payloads that are enumerated byte by byte
PayloadBytes == {0, 1, 2}
\* lengths of the long payloads, around the one-byte limit of the length field
LongLens == {254, 255, 256}
\* number of bytes asked for by a read
Counts == {1, 3}
\* delay argument of readRegister, in time units
Delays == {-1, 0, 2}
\* freq argument of setFreq, in Hz: around the 10 kHz steps and the 8-bit wrap
Freqs == {0, 9999, 10000, 500000, 509999, 2550000, 2559999, 2560000, 2570000}

\* all sequences over S of length 0..n
RECURSIVE SeqsUpTo(_, _)
SeqsUpTo(S, n) ==
  IF n = 0 THEN {<<>>}
  ELSE LET shorter == SeqsUpTo(S, n - 1)
       IN  shorter \cup {Append(s, b) : s \in {t \in shorter : Len(t) = n - 1}, b \in S}

\* a sequence of n times the byte b
Fill(n, b) == [i \in 1..n |-> b]

\* the vByte arguments: every short list, and long lists of one repeated byte
Payloads == SeqsUpTo(PayloadBytes, MaxLen) \cup {Fill(n, 0) : n \in LongLens}

(***************************************************************************)
(* State.                                                                  *)
(***************************************************************************)
VARIABLES
  v,      \* self.v, the verbose flag given to the constructor
  pc,     \* where the running call is: "idle", a receive it waits in, "done"
  op,     \* the method that was called last
  args,   \* its arguments
  log,    \* what the call did on the transport, in order
  reply,  \* the local variable reply: the result of the last receive
  n,      \* the local variable n of the read methods
  ret,    \* what the call returned (or raised)
  \* the shared bus: the threads of the caller and the firmware behind the
  \* transport; pc .. ret above belong to the thread that is running
  env,    \* "free": a receive may return anything; "bus": the firmware's bytes
  cur,    \* the thread that is running
  saved,  \* pc .. ret and cid of the threads that are not running
  lock,   \* the thread inside the caller's critical section, 0 when none is
  cid,    \* number of the call the running thread is in, 0 when in none
  calls,  \* number of calls started so far
  fw,     \* packets sent that the firmware has not handled yet
  rx      \* reply bytes of the firmware waiting in the transport, oldest first

vars == <<v, pc, op, args, log, reply, n, ret,
          env, cur, saved, lock, cid, calls, fw, rx>>

(***************************************************************************)
(* The transport self.comm (BridgeSerial): send(list) and receive(n).      *)
(* receive(n) returns [flag, bytes]: flag 1 with exactly n bytes, or a     *)
(* flag 0 (no byte arrived) or -1 (error) with no bytes.                   *)
(***************************************************************************)
\* single bytes the firmware may reply: 0, plain values and every error code
RxBytes == {0, 1, 3} \cup DOMAIN ERROR
\* bytes of a multi-byte reply
DataBytes == {17, 34, 51}

Reply(st, dat) == [st |-> st, dat |-> dat]

\* the bytes of the first m entries of the waiting replies
RxBytesOf(m) == [i \in 1..m |-> rx[i].b]

\* comm.receive(n) on the bus: the n oldest waiting bytes when there are as
\* many, else a timeout that takes nothing
StreamReceive(cnt) ==
  IF Len(rx) >= cnt THEN {Reply(1, RxBytesOf(cnt))} ELSE {Reply(0, <<>>)}

\* the possible results of comm.receive(n) when nothing is known of the
\* firmware
FreeReceive(cnt) ==
  {Reply(0, <<>>), Reply(-1, <<>>)} \cup
  (IF cnt = 0 THEN {Reply(1, <<>>)}
   ELSE IF cnt = 1 THEN {Reply(1, <<b>>) : b \in RxBytes}
   ELSE IF cnt <= MaxLen
        THEN {Reply(1, d) : d \in {s \in SeqsUpTo(DataBytes, cnt) : Len(s) = cnt}}
        ELSE {Reply(1, Fill(cnt, b)) : b \in DataBytes})

\* the possible results of comm.receive(n)
Receive(cnt) == IF env = "bus" THEN StreamReceive(cnt) ELSE FreeReceive(cnt)

\* entries of the transport log of a call
SendEv(d) == [k |-> "send", d |-> d, n |-> 0]
RecvEv(cnt) == [k |-> "recv", d |-> <<>>, n |-> cnt]
SleepEv(t) == [k |-> "sleep", d |-> <<>>, n |-> t]
ResetEv == [k |-> "reset", d |-> <<>>, n |-> 0]

(***************************************************************************)
(* Packets.                                                                *)
(***************************************************************************)
\* writeRaw with the length of writeRegister, one more than the payload
WriteRawPacket_LenPlusOne(dev, vByte) ==
  <<I2C_PACKET_ID, CMD_I2C_ADDRESS, dev, CMD_I2C_LENGTH, Len(vByte) + 1,
    CMD_I2C_WRITE>> \o vByte

\* writeRaw: vDat
WriteRawPacket(dev, vByte) ==
  <<I2C_PACKET_ID, CMD_I2C_ADDRESS, dev, CMD_I2C_LENGTH, Len(vByte),
    CMD_I2C_WRITE>> \o vByte

\* readRaw: vHdr
ReadRawPacket(dev, N) ==
  <<I2C_PACKET_ID, CMD_I2C_ADDRESS, dev, CMD_I2C_LENGTH, N, CMD_I2C_READ>>

\* writeRegister with the register byte left out of the length
WriteRegisterPacket_LenWithoutReg(dev, reg, vByte) ==
  <<I2C_PACKET_ID, CMD_I2C_ADDRESS, dev, CMD_I2C_LENGTH, Len(vByte),
    CMD_I2C_WRITE, reg>> \o vByte

\* writeRegister with the register byte put after the payload
WriteRegisterPacket_RegLast(dev, reg, vByte) ==
  <<I2C_PACKET_ID, CMD_I2C_ADDRESS, dev, CMD_I2C_LENGTH, Len(vByte) + 1,
    CMD_I2C_WRITE>> \o vByte \o <<reg>>

\* writeRegister: vDat
WriteRegisterPacket(dev, reg, vByte) ==
  <<I2C_PACKET_ID, CMD_I2C_ADDRESS, dev, CMD_I2C_LENGTH, Len(vByte) + 1,
    CMD_I2C_WRITE, reg>> \o vByte

\* readRegister: vHdr, the write-restart packet that selects the register
ReadRegisterHdr(dev, reg) ==
  <<I2C_PACKET_ID, CMD_I2C_ADDRESS, dev, CMD_I2C_LENGTH, 1,
    CMD_I2C_WRITE_RESTART, reg>>

\* readRegister: vRd, the read-request packet
ReadRegisterRd(N) ==
  <<I2C_PACKET_ID, CMD_I2C_LENGTH, N, CMD_I2C_READ>>

(***************************************************************************)
(* Values of the state.                                                    *)
(***************************************************************************)
NoArgs ==
  [dev |-> 0, reg |-> 0, vByte |-> <<>>, N |-> 0, delay |-> 0, freq |-> 0,
   B |-> 0, val |-> <<>>, pinList |-> <<>>]
NoReply == Reply(0, <<>>)

\* values a call ends with
RetNone == [kind |-> "none", st |-> 0, dat |-> <<>>]
RetReply(r) == [kind |-> "reply", st |-> r.st, dat |-> r.dat]
RetVal(d) == [kind |-> "val", st |-> 0, dat |-> d]
RetMinus1 == [kind |-> "minus1", st |-> 0, dat |-> <<>>]
Raise(e) == [kind |-> e, st |-> 0, dat |-> <<>>]
\* a method without a return statement returns None
RetPyNone == [kind |-> "None", st |-> 0, dat |-> <<>>]

\* the threads that share the object
Threads == {1, 2}

\* pc .. ret and cid of a thread that is in no call
IdleCtx ==
  [pc |-> "idle", op |-> "none", args |-> NoArgs, log |-> <<>>,
   reply |-> NoReply, n |-> 0, ret |-> RetNone, cid |-> 0]

\* the object after construction, with no thread in a call
InitCore ==
  /\ pc = "idle"
  /\ op = "none"
  /\ args = NoArgs
  /\ log = <<>>
  /\ reply = NoReply
  /\ n = 0
  /\ ret = RetNone
  /\ cur = 1
  /\ saved = [t \in Threads |-> IdleCtx]
  /\ lock = 0
  /\ cid = 0
  /\ calls = 0
  /\ fw = <<>>
  /\ rx = <<>>

Init ==
  /\ v \in BOOLEAN
  /\ env = "free"
  /\ InitCore

\* one caller, any replies: nothing of the shared bus changes
Solo == UNCHANGED <<env, cur, saved, lock, cid, calls, fw, rx>>

\* a new call starts when no call is running
CanCall == pc = "idle"

\* the call has returned (or raised): the caller takes the result and the
\* object is ready for its next call
Return ==
  /\ pc = "done"
  /\ pc' = "idle"
  /\ op' = "none"
  /\ args' = NoArgs
  /\ log' = <<>>
  /\ reply' = NoReply
  /\ n' = 0
  /\ ret' = RetNone
  /\ UNCHANGED v

(***************************************************************************)
(* setFreq                                                                 *)
(***************************************************************************)
\* the frequency rounded to the nearest 10 kHz step instead of truncated
FreqByte_Rounded(freq) == ((freq + 5000) \div 10000) % 256

\* freq = int(freq/10000)&0xff, for freq >= 0
FreqByte(freq) == (freq \div 10000) % 256

\* setFreq without the bus reset
SetFreqSteps_NoReset(freq) ==
  <<SendEv(<<I2C_PACKET_ID, CMD_I2C_FREQ, FreqByte(freq)>>)>>

\* what setFreq does on the transport: send vDat, then sendReset
SetFreqSteps(freq) ==
  <<SendEv(<<I2C_PACKET_ID, CMD_I2C_FREQ, FreqByte(freq)>>), ResetEv>>

\* setFreq, the whole call: it waits for no reply
setFreq(freq) ==
  /\ CanCall
  /\ op' = "setFreq"
  /\ args' = [NoArgs EXCEPT !.freq = freq]
  /\ log' = SetFreqSteps(freq)
  /\ pc' = "done"
  /\ ret' = RetPyNone
  /\ UNCHANGED <<v, reply, n>>

(***************************************************************************)
(* writeRaw                                                                *)
(***************************************************************************)
\* what the "if self.v:" block of writeRaw and the return make of a reply
WriteRawResult(verbose, r) ==
  IF verbose /\ r.st # 0
  THEN IF r.dat = <<>> THEN Raise("IndexError")   \* res = reply[1][0]
       ELSE Raise("NameError")                    \* par=(dev, reg, ...): no reg
  ELSE RetReply(r)

\* writeRaw up to its receive: build vDat and send it
writeRaw(dev, vByte) ==
  /\ CanCall
  /\ op' = "writeRaw"
  /\ args' = [NoArgs EXCEPT !.dev = dev, !.vByte = vByte]
  /\ log' = <<SendEv(WriteRawPacket(dev, vByte))>>
  /\ pc' = "writeRaw_reply"
  /\ UNCHANGED <<v, reply, n, ret>>

\* writeRaw from its receive to the return
writeRaw_reply ==
  /\ pc = "writeRaw_reply"
  /\ \E r \in Receive(1) :
       /\ reply' = r
       /\ log' = Append(log, RecvEv(1))
       /\ ret' = WriteRawResult(v, r)
  /\ pc' = "done"
  /\ UNCHANGED <<v, op, args, n>>

(***************************************************************************)
(* writeRegister                                                           *)
(***************************************************************************)
\* what the "if self.v:" block of writeRegister and the return make of a reply
WriteRegisterResult(verbose, r) ==
  IF verbose /\ r.st # 0
  THEN IF r.dat = <<>> THEN Raise("IndexError")          \* res = reply[1][0]
       ELSE IF r.dat[1] \notin DOMAIN ERROR THEN Raise("KeyError")  \* self.ERROR[res]
       ELSE RetReply(r)
  ELSE RetReply(r)

\* writeRegister up to its receive: build vDat and send it
writeRegister(dev, reg, vByte) ==
  /\ CanCall
  /\ op' = "writeRegister"
  /\ args' = [NoArgs EXCEPT !.dev = dev, !.reg = reg, !.vByte = vByte]
  /\ log' = <<SendEv(WriteRegisterPacket(dev, reg, vByte))>>
  /\ pc' = "writeRegister_reply"
  /\ UNCHANGED <<v, reply, n, ret>>

\* writeRegister from its receive to the return
writeRegister_reply ==
  /\ pc = "writeRegister_reply"
  /\ \E r \in Receive(1) :
       /\ reply' = r
       /\ log' = Append(log, RecvEv(1))
       /\ ret' = WriteRegisterResult(v, r)
  /\ pc' = "done"
  /\ UNCHANGED <<v, op, args, n>>

(***************************************************************************)
(* The tail shared by readRaw and readRegister: receive the count byte,    *)
(* then that many bytes.                                                   *)
(***************************************************************************)
\* a count byte equal to an error code ends the call with -1
ReadCount_ErrorCodeAborts(waitData) ==
  \E r \in Receive(1) :
    /\ reply' = r
    /\ log' = Append(log, RecvEv(1))
    /\ IF r.st # 0
       THEN IF r.dat = <<>>
            THEN /\ ret' = Raise("IndexError")
                 /\ pc' = "done"
                 /\ n' = n
            ELSE IF r.dat[1] \in DOMAIN ERROR
                 THEN /\ ret' = RetMinus1
                      /\ pc' = "done"
                      /\ n' = n
                 ELSE /\ n' = r.dat[1]
                      /\ pc' = waitData
                      /\ ret' = ret
       ELSE /\ ret' = RetMinus1
            /\ pc' = "done"
            /\ n' = n

\* reply = receive(1); if reply[0] != 0: n = reply[1][0] ...
ReadCount(waitData) ==
  \E r \in Receive(1) :
    /\ reply' = r
    /\ log' = Append(log, RecvEv(1))
    /\ IF r.st # 0
       THEN IF r.dat = <<>>
            THEN /\ ret' = Raise("IndexError")      \* reply[1][0] of no bytes
                 /\ pc' = "done"
                 /\ n' = n
            ELSE /\ n' = r.dat[1]
                 /\ pc' = waitData
                 /\ ret' = ret
       ELSE /\ ret' = RetMinus1
            /\ pc' = "done"
            /\ n' = n

\* the read returns the whole reply, flag included, instead of its bytes
ReadDataResult_WholeReply(r) ==
  IF r.st # 0 THEN RetReply(r) ELSE RetMinus1

\* if reply[0] != 0: return reply[1]; else return -1
ReadDataResult(r) ==
  IF r.st # 0 THEN RetVal(r.dat) ELSE RetMinus1

\* a failed payload receive starts the call again from its first send
ReadData_RetryForever ==
  \E r \in Receive(n) :
    /\ reply' = r
    /\ IF r.st # 0
       THEN /\ log' = Append(log, RecvEv(n))
            /\ ret' = ReadDataResult(r)
            /\ pc' = "done"
       ELSE /\ log' = <<log[1]>>
            /\ ret' = ret
            /\ pc' = IF op = "readRaw" THEN "readRaw_count" ELSE "readRegister_ack"

\* reply = receive(n), to the return
ReadData ==
  \E r \in Receive(n) :
    /\ reply' = r
    /\ log' = Append(log, RecvEv(n))
    /\ ret' = ReadDataResult(r)
    /\ pc' = "done"

(***************************************************************************)
(* readRaw                                                                 *)
(***************************************************************************)
\* readRaw up to its first receive: build vHdr and send it
readRaw(dev, N) ==
  /\ CanCall
  /\ op' = "readRaw"
  /\ args' = [NoArgs EXCEPT !.dev = dev, !.N = N]
  /\ log' = <<SendEv(ReadRawPacket(dev, N))>>
  /\ pc' = "readRaw_count"
  /\ UNCHANGED <<v, reply, n, ret>>

\* readRaw: the receive of the count byte
readRaw_count ==
  /\ pc = "readRaw_count"
  /\ ReadCount("readRaw_data")
  /\ UNCHANGED <<v, op, args>>

\* readRaw: the receive of the n bytes, to the return
readRaw_data ==
  /\ pc = "readRaw_data"
  /\ ReadData
  /\ UNCHANGED <<v, op, args, n>>

(***************************************************************************)
(* readRegister                                                            *)
(***************************************************************************)
\* the acknowledgment check without the test for -1
AckErr_OnlyZero(r) == ~(r.st # 0)

\* only the byte 'N' (no error) is taken as an acknowledgment
AckErr_RequireNone(r) == ~(r.st = 1 /\ r.dat = <<ERROR_NONE>>)

\* err after the receive of the acknowledgment
AckErr(r) == ~((r.st # 0) /\ (r.st # -1))

\* both paths send the write-restart packet alone
ReadRegisterFirstSend_NeverCombined(dev, reg, N, delay) ==
  ReadRegisterHdr(dev, reg)

\* only a delay of exactly zero takes the combined packet
ReadRegisterFirstSend_ZeroOnly(dev, reg, N, delay) ==
  IF delay = 0
  THEN ReadRegisterHdr(dev, reg) \o ReadRegisterRd(N)
  ELSE ReadRegisterHdr(dev, reg)

\* what readRegister sends before its first receive: the combined packet
\* when delay <= 0, else the write-restart packet alone
ReadRegisterFirstSend(dev, reg, N, delay) ==
  IF delay <= 0
  THEN ReadRegisterHdr(dev, reg) \o ReadRegisterRd(N)
  ELSE ReadRegisterHdr(dev, reg)

\* the read request goes out before the delay
ReadRegisterAfterAck_SendThenSleep(N, delay) ==
  IF delay <= 0
  THEN <<>>
  ELSE <<SendEv(ReadRegisterRd(N))>> \o
       (IF delay > 0 THEN <<SleepEv(delay)>> ELSE <<>>)

\* the read request is sent a second time, as a retry
ReadRegisterAfterAck_Resend(N, delay) ==
  IF delay <= 0
  THEN <<SendEv(ReadRegisterRd(N))>>
  ELSE (IF delay > 0 THEN <<SleepEv(delay)>> ELSE <<>>) \o
       <<SendEv(ReadRegisterRd(N)), SendEv(ReadRegisterRd(N))>>

\* what readRegister does between an accepted acknowledgment and the receive
\* of the count byte: nothing when delay <= 0, else sleep and send vRd
ReadRegisterAfterAck(N, delay) ==
  IF delay <= 0
  THEN <<>>
  ELSE (IF delay > 0 THEN <<SleepEv(delay)>> ELSE <<>>) \o
       <<SendEv(ReadRegisterRd(N))>>

\* readRegister up to its first receive: one combined send when delay <= 0,
\* else the write-restart packet alone
readRegister(dev, reg, N, delay) ==
  /\ CanCall
  /\ op' = "readRegister"
  /\ args' = [NoArgs EXCEPT !.dev = dev, !.reg = reg, !.N = N, !.delay = delay]
  /\ log' = <<SendEv(ReadRegisterFirstSend(dev, reg, N, delay))>>
  /\ pc' = "readRegister_ack"
  /\ UNCHANGED <<v, reply, n, ret>>

\* readRegister: the receive of the acknowledgment, and what follows it up to
\* the next receive or the return
readRegister_ack ==
  /\ pc = "readRegister_ack"
  /\ \E r \in Receive(1) :
       /\ reply' = r
       /\ IF AckErr(r)
          THEN /\ log' = Append(log, RecvEv(1))
               /\ ret' = RetMinus1
               /\ pc' = "done"
          ELSE /\ log' = Append(log, RecvEv(1)) \o
                           ReadRegisterAfterAck(args.N, args.delay)
               /\ ret' = ret
               /\ pc' = "readRegister_count"
  /\ UNCHANGED <<v, op, args, n>>

\* readRegister: the receive of the count byte
readRegister_count ==
  /\ pc = "readRegister_count"
  /\ ReadCount("readRegister_data")
  /\ UNCHANGED <<v, op, args>>

\* readRegister: the receive of the n bytes, to the return
readRegister_data ==
  /\ pc = "readRegister_data"
  /\ ReadData
  /\ UNCHANGED <<v, op, args, n>>

(***************************************************************************)
(* Max3700ExtGPIO, the driver of the MAX3700 port expander, on top of      *)
(* readRegister and writeRegister.                                         *)
(***************************************************************************)
\* registers and sizes of the chip
bankModeReg == 9
pinReg == 36
pinZeroOffset == 8
maxPorts == 7
\* the I2C address the driver was constructed with
devID == 0

\* the methods the class defines
Max3700Methods ==
  {"_getRegisters", "_setRegisters", "setMode", "getMode", "setBankMode",
   "setAllPinsToOutput", "getBankMode", "getAllPinsModes", "setPin",
   "clearAllPins", "setPort", "getPin", "getPort"}

\* first banks, values and pins of the calls
Banks == {0, 5, 6}
BankVals == {Fill(k, 85) : k \in 1..MaxLen}
PinLists == SeqsUpTo({0, 19}, 2)

\* N = len(val); if (B+N) > self.maxPorts: N = self.maxPorts-B
BankCount(B, val) == IF B + Len(val) > maxPorts THEN maxPorts - B ELSE Len(val)

\* setBankMode: N is computed, then self._writeRegister(self.bankModeReg+B,
\* val) is called, a name the class does not define
setBankMode(B, val) ==
  /\ CanCall
  /\ "_writeRegister" \notin Max3700Methods
  /\ op' = "setBankMode"
  /\ args' = [NoArgs EXCEPT !.B = B, !.val = val, !.N = BankCount(B, val)]
  /\ log' = <<>>
  /\ ret' = Raise("AttributeError")
  /\ pc' = "done"
  /\ UNCHANGED <<v, reply, n>>

\* getPin: for the first pin of the list self._readRegister(pinReg, 1) is
\* called, a name the class does not define; an empty list is returned as is
getPin(pinList) ==
  /\ CanCall
  /\ "_readRegister" \notin Max3700Methods
  /\ op' = "getPin"
  /\ args' = [NoArgs EXCEPT !.pinList = pinList]
  /\ log' = <<>>
  /\ ret' = IF pinList = <<>> THEN RetVal(<<>>) ELSE Raise("AttributeError")
  /\ pc' = "done"
  /\ UNCHANGED <<v, reply, n>>

(***************************************************************************)
(* Specification.                                                          *)
(***************************************************************************)
Next ==
  \/ (\E dev \in Devs, vByte \in Payloads : writeRaw(dev, vByte)) /\ Solo
  \/ writeRaw_reply /\ Solo
  \/ (\E dev \in Devs, reg \in Regs, vByte \in Payloads :
        writeRegister(dev, reg, vByte)) /\ Solo
  \/ writeRegister_reply /\ Solo
  \/ (\E dev \in Devs, N \in Counts : readRaw(dev, N)) /\ Solo
  \/ readRaw_count /\ Solo
  \/ readRaw_data /\ Solo
  \/ (\E dev \in Devs, reg \in Regs, N \in Counts, delay \in Delays :
        readRegister(dev, reg, N, delay)) /\ Solo
  \/ readRegister_ack /\ Solo
  \/ readRegister_count /\ Solo
  \/ readRegister_data /\ Solo
  \/ (\E freq \in Freqs : setFreq(freq)) /\ Solo
  \/ (\E B \in Banks, val \in BankVals : setBankMode(B, val)) /\ Solo
  \/ (\E pinList \in PinLists : getPin(pinList)) /\ Solo
  \/ Return /\ Solo

Spec == Init /\ [][Next]_vars

\* the steps of a running call: a receive that returns, and what follows it
CallStep ==
  /\ \/ writeRaw_reply
     \/ writeRegister_reply
     \/ readRaw_count
     \/ readRaw_data
     \/ readRegister_ack
     \/ readRegister_count
     \/ readRegister_data
  /\ Solo

\* the same program when every transport receive returns, with bytes or a
\* timeout, and the delay ends: a running call always takes its next step
SpecLive == Init /\ [][Next]_vars /\ WF_vars(CallStep)

(***************************************************************************)
(* Views of the transport log.                                             *)
(***************************************************************************)
\* the entries of kind k, in order
RECURSIVE OfKind(_, _)
OfKind(l, k) ==
  IF l = <<>> THEN <<>>
  ELSE IF Head(l).k = k THEN <<Head(l)>> \o OfKind(Tail(l), k)
       ELSE OfKind(Tail(l), k)

\* the byte sequences handed to comm.send, one per send
SentPackets == [i \in 1..Len(OfKind(log, "send")) |-> OfKind(log, "send")[i].d]
\* the sizes asked of comm.receive, one per receive
ReceiveSizes == [i \in 1..Len(OfKind(log, "recv")) |-> OfKind(log, "recv")[i].n]
\* the waits of the call
Sleeps == [i \in 1..Len(OfKind(log, "sleep")) |-> OfKind(log, "sleep")[i].n]

\* the firmware's error codes 'U', 'L', 'R', 'W', 'S'
FirmwareErrors == {85, 76, 82, 87, 83}

(***************************************************************************)
(* The shared bus: threads that call the object inside one critical        *)
(* section of the caller, and the firmware, which answers a packet some    *)
(* time after it was sent: one status byte for a write or write-restart    *)
(* segment, a count byte and that many data bytes for a read segment.      *)
(***************************************************************************)
\* status bytes the firmware answers a write with: accepted, or 'L'
FwStatus == {1, ERROR_LENGTH}

\* the firmware's answer to a read of cnt bytes
FwReadReply(cnt) == <<cnt>> \o [i \in 1..cnt |-> 17 * i]

\* the firmware's answer to the packet d, with status st for its write segment
FwReplies(d, st) ==
  IF d[2] = CMD_I2C_FREQ THEN <<>>
  ELSE IF d[2] = CMD_I2C_LENGTH THEN FwReadReply(d[3])
  ELSE IF d[6] = CMD_I2C_READ THEN FwReadReply(d[5])
  ELSE IF d[6] = CMD_I2C_WRITE THEN <<st>>
  ELSE <<st>> \o (IF Len(d) > 7 THEN FwReadReply(d[10]) ELSE <<>>)

\* bytes marked with the call whose packet they answer
Tagged(bytes, c) == [i \in 1..Len(bytes) |-> [b |-> bytes[i], call |-> c]]

\* the firmware handles the oldest packet and its answer reaches the transport
FwReply ==
  /\ fw # <<>>
  /\ \E st \in FwStatus :
       rx' = rx \o Tagged(FwReplies(Head(fw).d, st), Head(fw).call)
  /\ fw' = Tail(fw)
  /\ UNCHANGED <<v, pc, op, args, log, reply, n, ret, env, cur, saved, lock, cid, calls>>

\* the oldest packet never reaches the firmware: it is not answered
FwLose ==
  /\ fw # <<>>
  /\ fw' = Tail(fw)
  /\ UNCHANGED <<v, pc, op, args, log, reply, n, ret, env, cur, saved, lock, cid, calls, rx>>

\* what the step of the running thread did on the transport
NewEvents == IF pc = "idle" THEN log' ELSE SubSeq(log', Len(log) + 1, Len(log'))

\* number of waiting bytes the step's receive took
Taken ==
  IF NewEvents # <<>> /\ NewEvents[1].k = "recv" /\ reply'.st = 1
  THEN NewEvents[1].n
  ELSE 0

\* the step's receive takes its bytes, the sends of the step, made by call c,
\* go to the firmware
BusTransport(c) ==
  /\ rx' = SubSeq(rx, Taken + 1, Len(rx))
  /\ fw' = fw \o [i \in 1..Len(OfKind(NewEvents, "send")) |->
                    [call |-> c, d |-> OfKind(NewEvents, "send")[i].d]]

\* a thread enters the critical section and starts the call A
BusCall(A) ==
  /\ lock = 0
  /\ calls < MaxCalls
  /\ A
  /\ lock' = cur
  /\ calls' = calls + 1
  /\ cid' = calls + 1
  /\ BusTransport(calls + 1)
  /\ UNCHANGED <<env, cur, saved>>

\* the running call takes its step A
BusStep(A) ==
  /\ A
  /\ BusTransport(cid)
  /\ UNCHANGED <<env, cur, saved, lock, cid, calls>>

\* the call returns and the thread leaves the critical section
BusReturn ==
  /\ Return
  /\ lock' = 0
  /\ cid' = 0
  /\ UNCHANGED <<env, cur, saved, calls, fw, rx>>

\* pc .. ret and cid of the running thread
CurCtx ==
  [pc |-> pc, op |-> op, args |-> args, log |-> log,
   reply |-> reply, n |-> n, ret |-> ret, cid |-> cid]

\* the scheduler stops the running thread and runs thread t
Switch(t) ==
  /\ t # cur
  /\ cur' = t
  /\ saved' = [saved EXCEPT ![cur] = CurCtx, ![t] = IdleCtx]
  /\ pc' = saved[t].pc
  /\ op' = saved[t].op
  /\ args' = saved[t].args
  /\ log' = saved[t].log
  /\ reply' = saved[t].reply
  /\ n' = saved[t].n
  /\ ret' = saved[t].ret
  /\ cid' = saved[t].cid
  /\ UNCHANGED <<v, env, lock, calls, fw, rx>>

InitBus ==
  /\ v = FALSE
  /\ env = "bus"
  /\ InitCore

NextBus ==
  \/ \E delay \in {0, 2} : BusCall(readRegister(20, 16, 1, delay))
  \/ BusCall(writeRegister(20, 16, <<1>>))
  \/ BusCall(writeRaw(20, <<1>>))
  \/ BusCall(readRaw(20, 1))
  \/ BusCall(setFreq(500000))
  \/ BusStep(writeRaw_reply)
  \/ BusStep(writeRegister_reply)
  \/ BusStep(readRaw_count)
  \/ BusStep(readRaw_data)
  \/ BusStep(readRegister_ack)
  \/ BusStep(readRegister_count)
  \/ BusStep(readRegister_data)
  \/ BusReturn
  \/ \E t \in Threads : Switch(t)
  \/ FwReply
  \/ FwLose

SpecBus == InitBus /\ [][NextBus]_vars

(***************************************************************************)
(* C1: for every dev, reg and payload of 0..254 bytes, writeRegister hands *)
(* the transport exactly ['2','A',dev,'L',len+1,'W',reg,payload...] in one *)
(* send.                                                                   *)
(***************************************************************************)
C1_WriteRegisterWire ==
  (op = "writeRegister" /\ Len(args.vByte) <= 254) =>
    SentPackets =
      << <<50, 65, args.dev, 76, Len(args.vByte) + 1, 87, args.reg>> \o args.vByte >>

C1_Witness ==
  /\ op = "writeRegister" /\ pc = "done"
  /\ args.dev = 20 /\ args.reg = 16 /\ args.vByte = <<0, 1, 2>>
  /\ SentPackets = << <<50, 65, 20, 76, 4, 87, 16, 0, 1, 2>> >>

(***************************************************************************)
(* C2: readRegister with delay 0 issues exactly one send in the whole      *)
(* call, the concatenation ['2','A',dev,'L',1,'w',reg,'2','L',n,'R'],      *)
(* whatever replies arrive.                                                *)
(***************************************************************************)
C2_ZeroDelayOneSend ==
  (op = "readRegister" /\ args.delay = 0) =>
    SentPackets =
      << <<50, 65, args.dev, 76, 1, 119, args.reg, 50, 76, args.N, 82>> >>

C2_Witness ==
  /\ op = "readRegister" /\ pc = "done" /\ args.delay = 0
  /\ args.dev = 20 /\ args.reg = 16 /\ args.N = 3
  /\ ReceiveSizes = <<1, 1, 3>>
  /\ ret = RetVal(<<17, 34, 51>>)
  /\ SentPackets = << <<50, 65, 20, 76, 1, 119, 16, 50, 76, 3, 82>> >>

\* the call has got the reply to its first receive and acted on it
FirstReplyHandled ==
  /\ Len(ReceiveSizes) = 1
  /\ pc \notin {"writeRaw_reply", "writeRegister_reply", "readRaw_count",
                "readRegister_ack"}

(***************************************************************************)
(* C3: in both paths of readRegister, an acknowledgment byte equal to one  *)
(* of the firmware error codes 'U','L','R','W','S' makes the call return a *)
(* device error carrying that code, with no further receive and, with a    *)
(* positive delay, without the read-request packet being sent.             *)
(***************************************************************************)
C3_AckErrorCodeAborts ==
  (/\ op = "readRegister"
   /\ FirstReplyHandled
   /\ reply.st = 1
   /\ reply.dat[1] \in FirmwareErrors) =>
    /\ pc = "done"
    /\ ret.kind \notin {"none", "val", "reply"}
    /\ ret.dat = reply.dat
    /\ ReceiveSizes = <<1>>
    /\ Len(SentPackets) = 1

(***************************************************************************)
(* C4: in both paths of readRegister, when no acknowledgment byte arrives  *)
(* (receive(1) reports flag 0 or -1) the call returns a failure, performs  *)
(* no further receive, and with a positive delay neither waits nor sends   *)
(* the read-request packet.                                                *)
(***************************************************************************)
C4_NoAckAborts ==
  (/\ op = "readRegister"
   /\ FirstReplyHandled
   /\ reply.st \in {0, -1}) =>
    /\ pc = "done"
    /\ ret = RetMinus1
    /\ ReceiveSizes = <<1>>
    /\ Sleeps = <<>>
    /\ Len(SentPackets) = 1
    /\ args.delay > 0 => SentPackets = << <<50, 65, args.dev, 76, 1, 119, args.reg>> >>

C4_Witness ==
  /\ op = "readRegister" /\ pc = "done" /\ args.delay > 0
  /\ reply.st = -1
  /\ ret = RetMinus1
  /\ log = <<SendEv(<<50, 65, 20, 76, 1, 119, 16>>), RecvEv(1)>>

(***************************************************************************)
(* C5: readRegister with delay > 0 and an accepted acknowledgment does, in *)
(* this order: send ['2','A',dev,'L',1,'w',reg] alone, receive 1 byte,     *)
(* wait delay, send ['2','L',n,'R'], receive the count byte, receive the   *)
(* payload; there are exactly two sends, and the read request is never     *)
(* sent before the acknowledgment is received and the wait is over.        *)
(***************************************************************************)
C5_Steps ==
  <<SendEv(<<50, 65, args.dev, 76, 1, 119, args.reg>>),
    RecvEv(1),
    SleepEv(args.delay),
    SendEv(<<50, 76, args.N, 82>>),
    RecvEv(1),
    RecvEv(n)>>

C5_DelayedOrder ==
  (op = "readRegister" /\ args.delay > 0) =>
    \* what was done so far is a beginning of the six steps
    /\ Len(log) <= 6
    /\ log = SubSeq(C5_Steps, 1, Len(log))
    \* an accepted acknowledgment is followed by the wait and the second send
    /\ (FirstReplyHandled /\ reply.st = 1) =>
         (Len(log) = 4 /\ pc = "readRegister_count")
    /\ Len(log) > 2 => Len(SentPackets) = 2
    \* a call that returns bytes has done all six
    /\ (pc = "done" /\ ret.kind = "val") => Len(log) = 6

C5_Witness ==
  /\ op = "readRegister" /\ pc = "done" /\ args.delay = 2
  /\ ret = RetVal(<<17, 34, 51>>)
  /\ log = <<SendEv(<<50, 65, 20, 76, 1, 119, 16>>), RecvEv(1), SleepEv(2),
             SendEv(<<50, 76, 3, 82>>), RecvEv(1), RecvEv(3)>>

(***************************************************************************)
(* C6: in either path of readRegister, when the acknowledgment is accepted *)
(* and the firmware replies a count byte k > 0 and then k data bytes, the  *)
(* call returns exactly those k bytes, in order and unmodified, after      *)
(* exactly three receives of 1, 1 and k bytes.                             *)
(***************************************************************************)
C6_ReturnsPayload ==
  /\ \* the count byte k > 0 has arrived: the call goes on to receive k bytes
     (/\ op = "readRegister"
      /\ Len(ReceiveSizes) = 2
      /\ pc # "readRegister_count"
      /\ reply.st = 1
      /\ reply.dat[1] > 0) =>
       (pc = "readRegister_data" /\ n = reply.dat[1])
  /\ \* the k bytes have arrived: they are the result
     (/\ op = "readRegister"
      /\ Len(ReceiveSizes) = 3
      /\ reply.st = 1) =>
       /\ pc = "done"
       /\ ret.kind = "val"
       /\ ret.dat = reply.dat
       /\ ReceiveSizes = <<1, 1, Len(reply.dat)>>

C6_Witness ==
  /\ op = "readRegister" /\ pc = "done"
  /\ ReceiveSizes = <<1, 1, 3>>
  /\ reply = Reply(1, <<17, 34, 51>>)
  /\ ret.kind = "val" /\ ret.dat = <<17, 34, 51>>

(***************************************************************************)
(* C7: readRaw sends ['2','A',dev,'L',n,'R'] and receives one count byte;  *)
(* if the count byte is zero or an error code, or if no count byte         *)
(* arrives, it returns a failure without calling receive again.            *)
(***************************************************************************)
C7_ReadRawShortCircuit ==
  /\ op = "readRaw" => SentPackets = << <<50, 65, args.dev, 76, args.N, 82>> >>
  /\ (/\ op = "readRaw"
      /\ FirstReplyHandled
      /\ \/ reply.st \in {0, -1}
         \/ reply.dat[1] = 0
         \/ reply.dat[1] \in FirmwareErrors) =>
       /\ pc = "done"
       /\ ret.kind \notin {"none", "val", "reply"}
       /\ ReceiveSizes = <<1>>

(***************************************************************************)
(* C8: the outcome of writeRaw and writeRegister is determined by the one  *)
(* status byte received after the send: no byte (or byte 0) is reported as *)
(* a timeout, a firmware error code as a device error, a transport failure *)
(* as a transport error, anything else as success.                         *)
(***************************************************************************)
\* the outcome the status reply stands for
C8_Decoded(r) ==
  IF r.st = -1 THEN "Transport"
  ELSE IF r.st = 0 \/ r.dat[1] = 0 THEN "Timeout"
  ELSE IF r.dat[1] \in FirmwareErrors THEN "Device"
  ELSE "Ok"

\* the outcome the caller is told: the flag of the returned reply, read with
\* RES (1 is OK), or the exception
C8_Reported(r) ==
  IF r.kind # "reply" THEN "Raised"
  ELSE IF r.st \notin DOMAIN RES THEN "Timeout"
  ELSE IF RES[r.st] = "OK" THEN "Ok"
  ELSE "Transport"

C8_WriteOutcome ==
  (op \in {"writeRaw", "writeRegister"} /\ pc = "done") =>
    /\ C8_Decoded(reply) = "Ok" => C8_Reported(ret) = "Ok"
    /\ C8_Decoded(reply) = "Timeout" => C8_Reported(ret) = "Timeout"
    /\ C8_Decoded(reply) = "Transport" => C8_Reported(ret) = "Transport"
    /\ C8_Decoded(reply) = "Device" =>
         (C8_Reported(ret) \notin {"Ok", "Timeout", "Transport"} /\ ret.dat = reply.dat)

(***************************************************************************)
(* C9: for a payload longer than 255 bytes writeRaw fails with a protocol  *)
(* error (writeRegister likewise when register byte plus payload do not    *)
(* fit one length byte) and sends nothing; no packet is ever sent whose    *)
(* length field is out of the range of a byte.                             *)
(***************************************************************************)
C9_TooLong ==
  \/ op = "writeRaw" /\ Len(args.vByte) > 255
  \/ op = "writeRegister" /\ Len(args.vByte) + 1 > 255

C9_LongPayloadRejected ==
  /\ C9_TooLong =>
       /\ SentPackets = <<>>
       /\ pc = "done"
       /\ ret.kind = "ProtocolError"
  /\ op \in {"writeRaw", "writeRegister"} =>
       \A i \in 1..Len(SentPackets) : SentPackets[i][5] \in 0..255

(***************************************************************************)
(* C10: after any sequence of writeRaw, writeRegister and readRegister     *)
(* calls, every write or write-restart segment handed to the transport has *)
(* a length byte (the byte after 'L') in 0..255 that equals the number of  *)
(* bytes following the command byte in that segment, the register byte     *)
(* included.                                                               *)
(***************************************************************************)
\* the bytes of packet d after the command byte of its first segment: all
\* bytes after the sixth, less a read-request segment ['2','L',n,'R'] that
\* follows a write-restart segment in the same send
C10_SegmentPayloadLen(d) ==
  IF d[6] = 119 /\ Len(d) > 7 THEN Len(d) - 6 - 4 ELSE Len(d) - 6

C10_LengthByteMatches ==
  op \in {"writeRaw", "writeRegister", "readRegister"} =>
    \A i \in 1..Len(SentPackets) :
      (Len(SentPackets[i]) >= 6 /\ SentPackets[i][6] \in {87, 119}) =>
        /\ SentPackets[i][4] = 76
        /\ SentPackets[i][5] \in 0..255
        /\ SentPackets[i][5] = C10_SegmentPayloadLen(SentPackets[i])

(***************************************************************************)
(* C11: for every non-negative hz, setFreq encodes the frequency byte as   *)
(* floor(hz / 10000) mod 256: truncated, not rounded, and masked to 8 bits *)
(* (500000 gives 50, 509999 gives 50, 2560000 wraps to 0).                 *)
(***************************************************************************)
C11_FrequencyByte ==
  op = "setFreq" =>
    /\ Len(SentPackets) = 1
    /\ Len(SentPackets[1]) = 3
    /\ SentPackets[1][3] \in 0..255
    \* the byte is the number of whole 10 kHz steps, modulo 256
    /\ \E q \in 0..300 :
         /\ q * 10000 <= args.freq
         /\ args.freq < (q + 1) * 10000
         /\ SentPackets[1][3] = q % 256
    /\ args.freq = 500000 => SentPackets[1][3] = 50
    /\ args.freq = 509999 => SentPackets[1][3] = 50
    /\ args.freq = 2560000 => SentPackets[1][3] = 0

C11_Witness ==
  /\ op = "setFreq" /\ pc = "done"
  /\ args.freq = 2560000
  /\ SentPackets = << <<50, 70, 0>> >>

(***************************************************************************)
(* C12: setFreq performs exactly two transport actions, one send of        *)
(* ['2','F',freqByte] and then one bus reset; it never receives and it     *)
(* returns the same empty result whatever the firmware does.               *)
(***************************************************************************)
C12_SendThenReset ==
  op = "setFreq" =>
    /\ pc = "done"
    /\ Len(log) = 2
    /\ log[1].k = "send" /\ log[1].d[1] = 50 /\ log[1].d[2] = 70 /\ Len(log[1].d) = 3
    /\ log[2] = ResetEv
    /\ ReceiveSizes = <<>>
    /\ ret = RetPyNone

C12_Witness ==
  /\ op = "setFreq" /\ pc = "done"
  /\ args.freq = 500000
  /\ log = <<SendEv(<<50, 70, 50>>), ResetEv>>
  /\ ret.kind = "None"

(***************************************************************************)
(* C13: a readRegister call goes Idle -> RegisterSent -> (Acked ->         *)
(* optional Delaying -> ReadRequested -> CountReceived -> Done) or Failed, *)
(* in this order only; Failed is terminal (no further send or receive in   *)
(* the call); no packet is sent twice, so a call does at most 2 sends and  *)
(* at most 3 receives.                                                     *)
(***************************************************************************)
\* RegisterSent is the wait for the acknowledgment, ReadRequested the wait
\* for the count byte, CountReceived the wait for the payload; Done and
\* Failed are the two ways to be at "done"
C13_Transitions ==
  {<<"idle", "readRegister_ack">>,
   <<"readRegister_ack", "readRegister_count">>,
   <<"readRegister_ack", "done">>,
   <<"readRegister_count", "readRegister_data">>,
   <<"readRegister_count", "done">>,
   <<"readRegister_data", "done">>,
   <<"done", "idle">>}

C13_Failed == op = "readRegister" /\ pc = "done" /\ ret.kind # "val"

C13_Limits ==
  op = "readRegister" =>
    /\ Len(SentPackets) <= 2
    /\ Len(ReceiveSizes) <= 3
    /\ \A i, j \in 1..Len(SentPackets) : SentPackets[i] = SentPackets[j] => i = j
    \* the bytes are returned only after all three receives
    /\ (pc = "done" /\ ret.kind = "val") => Len(ReceiveSizes) = 3

C13_Step ==
  /\ (op = "readRegister" \/ op' = "readRegister") => <<pc, pc'>> \in C13_Transitions
  \* within a call the transport log only grows
  /\ (op = "readRegister" /\ pc # "done") =>
       (Len(log') > Len(log) /\ SubSeq(log', 1, Len(log)) = log)
  \* a call that has failed does nothing more on the transport
  /\ C13_Failed => (pc' = "idle" /\ log' = <<>>)

C13_StateMachine == [](C13_Limits) /\ [][C13_Step]_vars

C13_Witness ==
  /\ op = "readRegister" /\ pc = "done" /\ args.delay > 0
  /\ Len(SentPackets) = 2
  /\ Len(ReceiveSizes) = 3
  /\ Sleeps = <<args.delay>>
  /\ ret.kind = "val"

(***************************************************************************)
(* C14: readRaw and readRegister never return a partial result: a return   *)
(* value is a failure or a byte sequence as long as the count byte the     *)
(* firmware announced; when the payload receive times out or yields fewer  *)
(* bytes, the call returns a failure and none of the bytes.                *)
(***************************************************************************)
\* the call is back from its payload receive
C14_PayloadReceived ==
  \/ op = "readRaw" /\ pc = "done" /\ Len(ReceiveSizes) = 2
  \/ op = "readRegister" /\ pc = "done" /\ Len(ReceiveSizes) = 3

C14_NoPartialResult ==
  /\ (op \in {"readRaw", "readRegister"} /\ pc = "done") =>
       \/ ret.kind \notin {"val", "reply", "none", "None"}
       \/ ret.kind = "val" /\ Len(ret.dat) = n
  /\ (C14_PayloadReceived /\ reply.st # 1) => ret = RetMinus1

(***************************************************************************)
(* C17: every call of writeRaw, readRaw, writeRegister, readRegister and   *)
(* setFreq eventually returns to its caller, provided every transport send *)
(* and receive returns and the delay is finite; no call loops.             *)
(***************************************************************************)
C17_EveryCallReturns == (pc # "idle") ~> (pc = "done")

C17_Witness ==
  /\ op = "readRegister" /\ pc = "done" /\ args.delay > 0
  /\ Len(ReceiveSizes) = 3
  /\ reply.st = 0
  /\ ret = RetMinus1

(***************************************************************************)
(* C18: for all dev, reg and payloads of 0..254 bytes, decoding the packet *)
(* built for writeRegister recovers exactly (dev, reg, payload), so the    *)
(* encoding is injective.                                                  *)
(***************************************************************************)
\* the reading of a write packet: the address after 'A', the register after
\* 'W', and as many payload bytes as the length byte counts after it
C18_Decode(d) == <<d[3], d[7], SubSeq(d, 8, 6 + d[5])>>

C18_RoundTrip ==
  (op = "writeRegister" /\ Len(args.vByte) <= 254) =>
    /\ Len(SentPackets) = 1
    /\ Len(SentPackets[1]) = 6 + SentPackets[1][5]
    /\ <<SentPackets[1][1], SentPackets[1][2], SentPackets[1][4], SentPackets[1][6]>>
         = <<50, 65, 76, 87>>
    /\ C18_Decode(SentPackets[1]) = <<args.dev, args.reg, args.vByte>>

C18_Witness ==
  /\ op = "writeRegister" /\ pc = "done"
  /\ args.dev = 255 /\ args.reg = 0 /\ args.vByte = <<2, 0>>
  /\ C18_Decode(SentPackets[1]) = <<255, 0, <<2, 0>> >>

(***************************************************************************)
(* C19: writeRaw and writeRegister each perform exactly one send followed  *)
(* by exactly one receive of 1 byte, for every outcome of that receive;    *)
(* the send of writeRaw is ['2','A',dev,'L',len(payload),'W',payload...],  *)
(* with no register byte.                                                  *)
(***************************************************************************)
C19_OneSendOneReceive ==
  /\ op \in {"writeRaw", "writeRegister"} =>
       /\ Len(SentPackets) = 1
       /\ log[1].k = "send"
       /\ pc # "done" => log = <<log[1]>>
       /\ pc = "done" => log = <<log[1], RecvEv(1)>>
       /\ pc \in {"done", "writeRaw_reply", "writeRegister_reply"}
  /\ op = "writeRaw" =>
       SentPackets[1] = <<50, 65, args.dev, 76, Len(args.vByte), 87>> \o args.vByte

C19_Witness ==
  /\ op = "writeRaw" /\ pc = "done"
  /\ reply.st = 0
  /\ log = <<SendEv(<<50, 65, 20, 76, 3, 87, 0, 1, 2>>), RecvEv(1)>>

(***************************************************************************)
(* C20: in readRegister an acknowledgment byte that was received, is not   *)
(* zero and is outside the error-code set {'N','U','L','R','W','S'} is     *)
(* treated as Ok: with delay <= 0 the call goes on to receive the count    *)
(* byte and the payload, with delay > 0 it waits and sends the read        *)
(* request.                                                                *)
(***************************************************************************)
C20_PlainAck ==
  /\ op = "readRegister"
  /\ reply.st = 1
  /\ reply.dat[1] \notin {0, 78, 85, 76, 82, 87, 83}

C20_UnknownAckIsOk ==
  (FirstReplyHandled /\ C20_PlainAck) =>
    /\ pc = "readRegister_count"
    /\ args.delay <= 0 => (Len(SentPackets) = 1 /\ Sleeps = <<>>)
    /\ args.delay > 0 =>
         SubSeq(log, 2, Len(log)) =
           <<RecvEv(1), SleepEv(args.delay), SendEv(<<50, 76, args.N, 82>>)>>

C20_Witness ==
  /\ FirstReplyHandled /\ C20_PlainAck
  /\ reply.dat = <<1>>
  /\ args.delay > 0
  /\ pc = "readRegister_count"
  /\ Len(SentPackets) = 2

(***************************************************************************)
(* C15: with a firmware that answers every write or write-restart segment  *)
(* with one status byte and every read segment with a count byte and that  *)
(* many data bytes: after a readRegister call whose register-selection     *)
(* phase failed, no reply byte of that call is left unread in the          *)
(* transport, so the first receive of the next call gets the reply to      *)
(* that call's own send.                                                   *)
(***************************************************************************)
\* the running thread is back from a readRegister that gave up at the
\* acknowledgment
C15_SelectionFailed ==
  /\ op = "readRegister" /\ pc = "done"
  /\ ReceiveSizes = <<1>>
  /\ ret = RetMinus1

C15_NothingLeftUnread ==
  C15_SelectionFailed => \A i \in 1..Len(rx) : rx[i].call # cid

(***************************************************************************)
(* C16: when two threads share the transport and wrap every call in one    *)
(* common critical section, the sends and receives of a call form a        *)
(* contiguous block on the transport, and every receive of a call returns  *)
(* only bytes the firmware produced in reply to that call's own sends.     *)
(***************************************************************************)
\* a step in which the running thread uses the transport
C16_UsesTransport == cur' = cur /\ cid' # 0 /\ NewEvents # <<>>

\* no other thread is between the first and the last transport action of a
\* call of its own
C16_Contiguous ==
  C16_UsesTransport => \A t \in Threads \ {cur} : saved[t].pc \in {"idle", "done"}

\* the bytes a receive takes answer the packets of the call that receives
C16_OwnReplies ==
  C16_UsesTransport => \A i \in 1..Taken : rx[i].call = cid'

C16_CriticalSection == [][C16_Contiguous /\ C16_OwnReplies]_vars

(***************************************************************************)
(* Two threads on one transport without a critical section of the caller.  *)
(***************************************************************************)
\* a thread starts the call A behind an internal lock of the object: only
\* while no other thread is inside a call
RacyCall_InternalLock(A) ==
  /\ \A t \in Threads \ {cur} : saved[t].pc \in {"idle", "done"}
  /\ calls < MaxRaceCalls
  /\ A
  /\ calls' = calls + 1
  /\ cid' = calls + 1
  /\ BusTransport(calls + 1)
  /\ UNCHANGED <<env, cur, saved, lock>>

\* a thread starts the call A: the methods take no lock, whatever the other
\* thread is doing
RacyCall(A) ==
  /\ calls < MaxRaceCalls
  /\ A
  /\ calls' = calls + 1
  /\ cid' = calls + 1
  /\ BusTransport(calls + 1)
  /\ UNCHANGED <<env, cur, saved, lock>>

NextRace ==
  \/ \E delay \in {0, 2} : RacyCall(readRegister(20, 16, 1, delay))
  \/ RacyCall(writeRegister(20, 16, <<1>>))
  \/ BusStep(writeRegister_reply)
  \/ BusStep(readRegister_ack)
  \/ BusStep(readRegister_count)
  \/ BusStep(readRegister_data)
  \/ BusReturn
  \/ \E t \in Threads : Switch(t)
  \/ FwReply

SpecRace == InitBus /\ [][NextRace]_vars

(***************************************************************************)
(* C21: the object holds no lock of its own.  Whatever another thread is   *)
(* doing on the shared transport, a thread that is not inside a call can   *)
(* start one; so an interleaving is reachable in which the receive of one  *)
(* call returns a byte the firmware produced for the send of the other     *)
(* thread's call, and the call returns it.                                 *)
(***************************************************************************)
C21_NoInternalLock ==
  (pc = "idle" /\ calls < MaxRaceCalls) =>
     /\ ENABLED RacyCall(readRegister(20, 16, 1, 2))
     /\ ENABLED RacyCall(writeRegister(20, 16, <<1>>))

\* the second of two calls has returned what its receive gave it while none
\* of its own packets was answered yet, and the first call, of the other
\* thread, has not finished
C21_Witness ==
  /\ calls = 2 /\ cid = 2
  /\ pc = "done" /\ ret.kind \in {"reply", "val"}
  /\ reply.st = 1
  /\ Cardinality({i \in 1..Len(fw) : fw[i].call = cid}) = Len(SentPackets)
  /\ \E t \in Threads \ {cur} :
       saved[t].cid = 1 /\ saved[t].pc \notin {"idle", "done"}

(***************************************************************************)
(* C22: for every count byte k in 1..255 the firmware announces in answer  *)
(* to a read request, the values equal to an error code (76, 78, 82, 83,   *)
(* 85, 87) included, readRaw and readRegister go on to receive k bytes,    *)
(* and return them when all k arrive: such a read is not reported as a     *)
(* device error.                                                           *)
(***************************************************************************)
\* the receive of the count byte is the last thing the call did
C22_CountStage ==
  \/ op = "readRaw" /\ Len(ReceiveSizes) = 1 /\ pc # "readRaw_count"
  \/ op = "readRegister" /\ Len(ReceiveSizes) = 2 /\ pc # "readRegister_count"

\* the receive of the data bytes is the last thing the call did
C22_DataStage ==
  \/ op = "readRaw" /\ Len(ReceiveSizes) = 2
  \/ op = "readRegister" /\ Len(ReceiveSizes) = 3

C22_AnyCountIsRead ==
  /\ (C22_CountStage /\ reply.st = 1 /\ reply.dat[1] \in 1..255) =>
       /\ pc \in {"readRaw_data", "readRegister_data"}
       /\ n = reply.dat[1]
  /\ (C22_DataStage /\ reply.st = 1 /\ n \in 1..255) =>
       /\ pc = "done"
       /\ ReceiveSizes[Len(ReceiveSizes)] = n
       /\ Len(reply.dat) = n
       /\ ret = RetVal(reply.dat)

\* a read of 76 bytes, the value of the length error code, has returned them
C22_Witness ==
  /\ op = "readRaw" /\ pc = "done"
  /\ n = ERROR_LENGTH
  /\ ReceiveSizes = <<1, ERROR_LENGTH>>
  /\ ret.kind = "val" /\ Len(ret.dat) = ERROR_LENGTH

(***************************************************************************)
(* C23: the verbose flag only adds logging.  For writeRaw and              *)
(* writeRegister, for every argument and every reply of the firmware,      *)
(* status bytes outside the error table such as 1 included, the run with   *)
(* verbose on does the same send and receive and returns the same value    *)
(* as the run with verbose off, which returns the reply as received; it    *)
(* never ends in an exception.  readRaw and readRegister do not read the   *)
(* flag but to pass it to the logger.                                      *)
(***************************************************************************)
C23_VerboseOnlyLogs ==
  (op \in {"writeRaw", "writeRegister"} /\ pc = "done") =>
    /\ Len(SentPackets) = 1 /\ ReceiveSizes = <<1>>
    /\ ret = WriteRawResult(FALSE, reply)
    /\ ret = WriteRegisterResult(FALSE, reply)

(***************************************************************************)
(* C24: readRegister selects its path by the sign of delay alone.  Every   *)
(* delay <= 0, negative values included, takes the path of one combined    *)
(* send and no wait; every delay > 0 takes the path of two sends.  No      *)
(* delay leads to a wait of negative duration, or to a call that sends     *)
(* neither the combined packet nor the write-restart packet.               *)
(***************************************************************************)
\* the combined packet of the call in progress
C24_Combined == ReadRegisterHdr(args.dev, args.reg) \o ReadRegisterRd(args.N)

C24_PathBySign ==
  op = "readRegister" =>
    /\ Len(SentPackets) >= 1
    /\ \A i \in 1..Len(Sleeps) : Sleeps[i] > 0
    /\ args.delay <= 0 =>
         /\ SentPackets = <<C24_Combined>>
         /\ Sleeps = <<>>
    /\ args.delay > 0 =>
         /\ SentPackets[1] = ReadRegisterHdr(args.dev, args.reg)
         /\ Len(SentPackets) <= 2
         /\ Len(SentPackets) = 2 =>
              (SentPackets[2] = ReadRegisterRd(args.N) /\ Sleeps = <<args.delay>>)
         /\ pc \in {"readRegister_count", "readRegister_data"} => Len(SentPackets) = 2

\* a call with a negative delay has returned the bytes it read
C24_Witness ==
  /\ op = "readRegister" /\ pc = "done"
  /\ args.delay < 0
  /\ ret.kind = "val"
  /\ SentPackets = <<C24_Combined>>
  /\ ReceiveSizes = <<1, 1, 3>>

(***************************************************************************)
(* C25: MAX3700 setBankMode(B, val) writes bank-mode registers only up to  *)
(* the last port: it writes the values starting at register 0x09 + B, and  *)
(* when B + len(val) exceeds maxPorts (7) at most maxPorts - B of them, so *)
(* that no register at or beyond 0x09 + maxPorts is written.               *)
(***************************************************************************)
C25_BankModeWrite ==
  (op = "setBankMode" /\ pc = "done") =>
    /\ Len(SentPackets) = 1
    /\ \E k \in 1..BankCount(args.B, args.val) :
         SentPackets[1] =
           WriteRegisterPacket(devID, bankModeReg + args.B, SubSeq(args.val, 1, k))

(***************************************************************************)
(* C26: MAX3700 getPin(pinList) issues exactly one register read of one    *)
(* byte per requested pin, in list order, at register 0x24 + 8 + pin, and  *)
(* returns a list with one entry per requested pin in the same order; a    *)
(* failed read of one pin does not stop the reads of the remaining pins.   *)
(***************************************************************************)
C26_OneReadPerPin ==
  (op = "getPin" /\ pc = "done") =>
    /\ Len(SentPackets) = Len(args.pinList)
    /\ \A i \in 1..Len(SentPackets) :
         SentPackets[i] =
           ReadRegisterHdr(devID, pinReg + pinZeroOffset + args.pinList[i])
             \o ReadRegisterRd(1)
    /\ ret.kind = "val"
    /\ Len(ret.dat) = Len(args.pinList)
====
